---- MODULE Spec2Model ----
(***************************************************************************)
(* A model of src/server.py: the /calculate handler of the natal-chart     *)
(* backend, its angle/zodiac helpers, its local-time resolution and the    *)
(* whole-sign house assignment.                                            *)
(*                                                                         *)
(* Numbers.  A Python float is modelled as an integer count of units, where*)
(* one degree is Deg units (so round(x, 6) rounds to Micro units, exactly  *)
(* 10^-6 degree).  Binary floating point is kept: a value needs FloatBits  *)
(* significant bits, so the spacing of representable values doubles at     *)
(* every power of two and a sum is rounded to nearest, ties to even        *)
(* (Python: 53 bits; the model: FloatBits bits over a finest step of one   *)
(* unit).  Seconds are integers counted from 2000-01-01T00:00:00.          *)
(***************************************************************************)
EXTENDS Integers, Sequences, FiniteSets, TLC

VARIABLES
    PLANETS,                \* module global, server.py:30
    SIGNS,                  \* module global, server.py:40
    true_obliquity_radians, \* module global, server.py:15-18 ("function" or "None")
    backend,                \* which query of the external ephemeris backend raises
    pc,                     \* per worker: position inside calculate()
    data,                   \* per worker: the JSON body of the request
    frame,                  \* per worker: the locals of calculate()
    response,               \* per worker: the HTTP response
    calls,                  \* per worker: external calls made for the request
    arg,                    \* pure-function harness: the input
    res                     \* pure-function harness: the result

vars == <<PLANETS, SIGNS, true_obliquity_radians, backend,
          pc, data, frame, response, calls, arg, res>>

globals == <<PLANETS, SIGNS, true_obliquity_radians, backend>>

(***************************************************************************)
(* Bounds of the model.                                                    *)
(***************************************************************************)
FloatBits == 28
NWorkers == 2

Workers == 1..NWorkers

(***************************************************************************)
(* Units.                                                                  *)
(***************************************************************************)
Deg == 3 * 1000000          \* units in one degree
Micro == Deg \div 1000000   \* units in 10^-6 degree, the step of round(x, 6)
D360 == 360 * Deg
D30 == 30 * Deg

Abs(x) == IF x < 0 THEN -x ELSE x

RECURSIVE Pow2(_)
Pow2(n) == IF n = 0 THEN 1 ELSE 2 * Pow2(n - 1)

RECURSIVE BitLen(_)
BitLen(n) == IF n = 0 THEN 0 ELSE 1 + BitLen(n \div 2)

\* x rounded to the nearest multiple of q, ties to the even multiple.
RoundTo(x, q) ==
    LET r  == x % q
        lo == x - r
    IN  IF 2 * r < q THEN lo
        ELSE IF 2 * r > q THEN lo + q
        ELSE IF (lo \div q) % 2 = 0 THEN lo ELSE lo + q

\* The spacing of floats at magnitude n.
Ulp(n) == IF BitLen(Abs(n)) <= FloatBits THEN 1 ELSE Pow2(BitLen(Abs(n)) - FloatBits)

\* The float nearest to the exact value x (the rounding of every float operation).
Float(x) == RoundTo(x, Ulp(x))

\* C fmod: exact, with the sign of x.
FMod(x, m) == IF x >= 0 THEN x % m ELSE -((-x) % m)

\* Python's float x % m for m > 0: fmod, then one rounded addition of m when
\* the remainder is negative.
PyMod(x, m) ==
    LET mod == FMod(x, m)
    IN  IF mod # 0 /\ mod < 0 THEN Float(mod + m) ELSE mod

\* Python's float x // m for m > 0, as an integer.
PyFloorDiv(x, m) ==
    LET mod == FMod(x, m)
        div == (x - mod) \div m
    IN  IF mod # 0 /\ mod < 0 THEN div - 1 ELSE div

\* Python's round(x, 6).
PyRound6(x) == Float(RoundTo(x, Micro))

(***************************************************************************)
(* Angle/zodiac helpers, server.py:46-53.                                  *)
(***************************************************************************)
normalize_deg(deg) == PyMod(deg, D360)

sign_index_from_lon(lon_deg) == PyFloorDiv(normalize_deg(lon_deg), D30)

deg_in_sign(lon_deg) == PyMod(normalize_deg(lon_deg), D30)

\* C-style remainder: the sign of the dividend.
HouseTruncated(p_sidx, asc_sidx) == FMod(p_sidx - asc_sidx, 12) + 1

\* server.py:178; Python's int % is never negative for a positive modulus.
House(p_sidx, asc_sidx) == ((p_sidx - asc_sidx) % 12) + 1

(***************************************************************************)
(* Strings.  A Python str is a TLA+ string; its i-th character is          *)
(* SubSeq(s, i, i).                                                        *)
(***************************************************************************)
Char(s, i) == SubSeq(s, i, i)

Digits == <<"0", "1", "2", "3", "4", "5", "6", "7", "8", "9">>

IsDigit(c) == \E i \in 1..10 : Digits[i] = c

DigitVal(c) == (CHOOSE i \in 1..10 : Digits[i] = c) - 1

AllDigits(s) == Len(s) > 0 /\ \A i \in 1..Len(s) : IsDigit(Char(s, i))

RECURSIVE ToInt(_)
ToInt(s) ==
    IF Len(s) = 0 THEN 0
    ELSE 10 * ToInt(SubSeq(s, 1, Len(s) - 1)) + DigitVal(Char(s, Len(s)))

\* str.strip(), for the blank character.
RECURSIVE LStrip(_)
LStrip(s) ==
    IF Len(s) > 0 /\ Char(s, 1) = " " THEN LStrip(SubSeq(s, 2, Len(s))) ELSE s

RECURSIVE RStrip(_)
RStrip(s) ==
    IF Len(s) > 0 /\ Char(s, Len(s)) = " " THEN RStrip(SubSeq(s, 1, Len(s) - 1)) ELSE s

Strip(s) == RStrip(LStrip(s))

\* str.replace(old, new) for single characters.
RECURSIVE Replace(_, _, _)
Replace(s, old, new) ==
    IF Len(s) = 0 THEN s
    ELSE (IF Char(s, 1) = old THEN new ELSE Char(s, 1))
             \o Replace(SubSeq(s, 2, Len(s)), old, new)

\* str.count(c) for a single character.
Count(s, c) == Cardinality({i \in 1..Len(s) : Char(s, i) = c})

\* str.split(c): the pieces between the occurrences of c.
RECURSIVE Split(_, _)
Split(s, c) ==
    IF Count(s, c) = 0 THEN <<s>>
    ELSE LET i == CHOOSE j \in 1..Len(s) :
                      Char(s, j) = c /\ \A k \in 1..(j - 1) : Char(s, k) # c
         IN  <<SubSeq(s, 1, i - 1)>> \o Split(SubSeq(s, i + 1, Len(s)), c)

(***************************************************************************)
(* Calendar arithmetic of datetime: proleptic Gregorian ordinals.          *)
(***************************************************************************)
IsLeap(y) == y % 4 = 0 /\ (y % 100 # 0 \/ y % 400 = 0)

DaysInMonth(y, m) ==
    IF m = 2 THEN (IF IsLeap(y) THEN 29 ELSE 28)
    ELSE IF m \in {4, 6, 9, 11} THEN 30 ELSE 31

DaysBeforeYear(y) ==
    (y - 1) * 365 + (y - 1) \div 4 - (y - 1) \div 100 + (y - 1) \div 400

RECURSIVE DaysBeforeMonth(_, _)
DaysBeforeMonth(y, m) ==
    IF m = 1 THEN 0 ELSE DaysBeforeMonth(y, m - 1) + DaysInMonth(y, m - 1)

ToOrdinal(y, m, d) == DaysBeforeYear(y) + DaysBeforeMonth(y, m) + d

EpochOrdinal == ToOrdinal(2000, 1, 1)

\* A naive datetime as seconds since the epoch.
Timestamp(dt) ==
    (ToOrdinal(dt.year, dt.month, dt.day) - EpochOrdinal) * 86400
        + dt.hour * 3600 + dt.minute * 60 + dt.second

\* The naive datetime of a count of seconds (datetime arithmetic).
FromTimestamp(ts) ==
    LET ord == ts \div 86400 + EpochOrdinal
        sod == ts % 86400
        y   == CHOOSE yy \in 1990..2070 :
                   DaysBeforeYear(yy) < ord /\ ord <= DaysBeforeYear(yy + 1)
        m   == CHOOSE mm \in 1..12 :
                   /\ DaysBeforeYear(y) + DaysBeforeMonth(y, mm) < ord
                   /\ ord <= DaysBeforeYear(y) + DaysBeforeMonth(y, mm) + DaysInMonth(y, mm)
    IN  [year |-> y, month |-> m,
         day |-> ord - DaysBeforeYear(y) - DaysBeforeMonth(y, m),
         hour |-> sod \div 3600, minute |-> (sod % 3600) \div 60, second |-> sod % 60]

(***************************************************************************)
(* parse_local_datetime, server.py:61-66, and datetime.strptime.           *)
(***************************************************************************)
Ok(v) == [ok |-> TRUE, value |-> v]
Raise(e) == [ok |-> FALSE, exc |-> e]

\* One numeric directive: one or two digits (exactly four for %Y) in lo..hi.
Field(s, minlen, maxlen, lo, hi) ==
    /\ AllDigits(s)
    /\ Len(s) >= minlen
    /\ Len(s) <= maxlen
    /\ ToInt(s) >= lo
    /\ ToInt(s) <= hi

\* datetime.strptime(text, "%Y-%m-%d %H:%M") and, with seconds = TRUE,
\* "%Y-%m-%d %H:%M:%S".  The blank of the format matches one or more blanks.
Strptime(text, seconds) ==
    LET sp    == IF Count(text, " ") = 0 THEN Len(text) + 1
                 ELSE CHOOSE j \in 1..Len(text) :
                          Char(text, j) = " " /\ \A k \in 1..(j - 1) : Char(text, k) # " "
        dpart == SubSeq(text, 1, sp - 1)
        tpart == LStrip(SubSeq(text, sp, Len(text)))
        d     == Split(dpart, "-")
        t     == Split(tpart, ":")
        nt    == IF seconds THEN 3 ELSE 2
        match == /\ sp <= Len(text)
                 /\ Len(d) = 3
                 /\ Len(t) = nt
                 /\ Field(d[1], 4, 4, 0, 9999)
                 /\ Field(d[2], 1, 2, 1, 12)
                 /\ Field(d[3], 1, 2, 1, 31)
                 /\ Field(t[1], 1, 2, 0, 23)
                 /\ Field(t[2], 1, 2, 0, 59)
                 /\ (seconds => Field(t[3], 1, 2, 0, 61))
        y     == ToInt(d[1])
        mo    == ToInt(d[2])
        dd    == ToInt(d[3])
        ss    == IF seconds THEN ToInt(t[3]) ELSE 0
    IN  IF ~match THEN Raise("ValueError")             \* does not match format
        ELSE IF y < 1 \/ dd > DaysInMonth(y, mo) \/ ss > 59
             THEN Raise("ValueError")                  \* datetime() value ranges
        ELSE Ok([year |-> y, month |-> mo, day |-> dd,
                 hour |-> ToInt(t[1]), minute |-> ToInt(t[2]), second |-> ss])

parse_local_datetime(date_str, time_str) ==
    LET ts == Replace(Strip(time_str), ".", ":")
    IN  Strptime(date_str \o " " \o ts, Count(ts, ":") = 2)

(***************************************************************************)
(* zoneinfo.  A zone is its offset before the first tabulated transition   *)
(* and its transitions (UTC instant, offset from then on).  The tables are *)
(* the IANA rules of 2021.                                                 *)
(***************************************************************************)
At(y, m, d, hh, mm) ==
    Timestamp([year |-> y, month |-> m, day |-> d,
               hour |-> hh, minute |-> mm, second |-> 0])

ZoneInfo(tz_name) ==
    CASE tz_name = "America/New_York" ->
            [before |-> -18000,
             trans  |-> <<[utc |-> At(2021, 3, 14, 7, 0),  off |-> -14400],
                          [utc |-> At(2021, 11, 7, 6, 0),  off |-> -18000]>>]
      [] tz_name = "Australia/Lord_Howe" ->
            [before |-> 39600,
             trans  |-> <<[utc |-> At(2021, 4, 3, 15, 0),  off |-> 37800],
                          [utc |-> At(2021, 10, 2, 15, 30), off |-> 39600]>>]
      [] tz_name = "Antarctica/McMurdo" ->
            [before |-> 46800,
             trans  |-> <<[utc |-> At(2021, 4, 3, 14, 0),  off |-> 43200],
                          [utc |-> At(2021, 9, 25, 14, 0), off |-> 46800]>>]
      [] tz_name = "Asia/Tokyo" -> [before |-> 32400, trans |-> <<>>]
      [] OTHER -> [before |-> 0, trans |-> <<>>]          \* "UTC"

\* The offset in force before transition i of zone z.
OffsetBefore(z, i) == IF i = 1 THEN z.before ELSE z.trans[i - 1].off

Max(a, b) == IF a >= b THEN a ELSE b
Min(a, b) == IF a <= b THEN a ELSE b

\* zoneinfo's trans_list_wall[fold][i]: transition i on the wall clock, by
\* the larger of the two offsets for fold = 0 and the smaller for fold = 1.
TransWall(z, i, fold) ==
    z.trans[i].utc
        + (IF fold = 0 THEN Max(OffsetBefore(z, i), z.trans[i].off)
                       ELSE Min(OffsetBefore(z, i), z.trans[i].off))

\* tzinfo.utcoffset(dt) of a wall-clock time: the offset after the last
\* transition whose wall time is <= the local timestamp (bisect_right).
UtcOffset(z, local_ts, fold) ==
    LET n == Cardinality({i \in 1..Len(z.trans) : TransWall(z, i, fold) <= local_ts})
    IN  IF n = 0 THEN z.before ELSE z.trans[n].off

\* dt_local_naive.replace(tzinfo = tz) with fold = 1: the later reading.
AttachFold1(dt_local_naive, tz_name) ==
    [naive |-> dt_local_naive, tzinfo |-> tz_name, fold |-> 1]

\* server.py:74: dt_local_naive.replace(tzinfo = tz); the fold of a parsed
\* datetime is 0 and replace keeps it.
Attach(dt_local_naive, tz_name) ==
    [naive |-> dt_local_naive, tzinfo |-> tz_name, fold |-> 0]

\* dt_local.utcoffset()
OffsetOf(dt_local) ==
    UtcOffset(ZoneInfo(dt_local.tzinfo), Timestamp(dt_local.naive), dt_local.fold)

\* server.py:77: dt_local.astimezone(ZoneInfo("UTC")) = (dt - utcoffset) in UTC.
AsUtc(dt_local) == FromTimestamp(Timestamp(dt_local.naive) - OffsetOf(dt_local))

(***************************************************************************)
(* timezonefinder.  The finder knows regions of the globe; anywhere else   *)
(* (open ocean) it answers None.                                           *)
(***************************************************************************)
None == "None"

InBox(lat, lng, s, n, w, e) ==
    lat >= s * Deg /\ lat <= n * Deg /\ lng >= w * Deg /\ lng <= e * Deg

timezone_at(lat, lng) ==
    CASE InBox(lat, lng, 40, 41, -75, -73)    -> "America/New_York"
      [] InBox(lat, lng, -32, -31, 159, 160)  -> "Australia/Lord_Howe"
      [] InBox(lat, lng, 35, 36, 139, 140)    -> "Asia/Tokyo"
      [] InBox(lat, lng, -90, -89, -180, 180) -> "Antarctica/McMurdo"
      [] OTHER -> None

certain_timezone_at(lat, lng) == timezone_at(lat, lng)

\* server.py:55-59
get_iana_tz(lat, lon) ==
    LET tz_name == IF timezone_at(lat, lon) # None THEN timezone_at(lat, lon)
                   ELSE certain_timezone_at(lat, lon)
    IN  IF tz_name = None THEN Raise("ValueError") ELSE Ok(tz_name)

\* server.py:68-78
local_to_utc(date_str, time_str, lat, lon) ==
    LET parsed == parse_local_datetime(date_str, time_str)
        zone   == get_iana_tz(lat, lon)
        local  == Attach(parsed.value, zone.value)
    IN  IF ~parsed.ok THEN parsed
        ELSE IF ~zone.ok THEN zone
        ELSE Ok([tz_name |-> zone.value, dt_local |-> local, dt_utc |-> AsUtc(local)])

(***************************************************************************)
(* Skyfield.  The backend is a function of the instant; which of its       *)
(* queries raises is fixed for the process by `backend`, and every body    *)
(* query raises past the end of the de421 kernel.                          *)
(***************************************************************************)
\* server.py:80-84: the timescale instant of the UTC calendar fields.
skyfield_time_from_utc(dt_utc) == Timestamp(dt_utc)

EphEnd == At(2053, 10, 9, 0, 0)

Kernel == <<"sun", "moon", "mercury", "venus", "mars",
            "jupiter barycenter", "saturn barycenter">>

BodyNo(body) == CHOOSE i \in 1..Len(Kernel) : Kernel[i] = body

\* Longitudes the backend reports, in [0, 360) degrees.
RawLons ==
    <<0, D30, D30 - 1, 2 * D30 - 1, 45 * Deg + 500001, 123 * Deg + 456789,
      6 * D30, 9 * D30 + 7, 11 * D30, D360 - 8, D360 - D30 - Micro>>

\* lon.degrees of earth.at(t).observe(body).apparent().frame_latlon(...)
ObserveLon(t, body) ==
    IF t >= EphEnd \/ backend = body THEN Raise("EphemerisRangeError")
    ELSE Ok(RawLons[(((t \div 1800) + 3 * BodyNo(body)) % Len(RawLons)) + 1])

\* server.py:120-127
planet_ecliptic_longitude_deg(t, body) ==
    LET lon == ObserveLon(t, body)
    IN  IF lon.ok THEN Ok(normalize_deg(lon.value)) ELSE lon

\* t.gast, in hours (one hour is Deg units), in [0, 24).
Gast(t) ==
    IF backend = "gast" THEN Raise("ValueError")
    ELSE Ok((t % 86164) * 835)

\* skyfield.nutationlib.true_obliquity_radians(t), in 10^-9 radian.
TrueObliquity(t) ==
    IF backend = "obliquity" THEN Raise("ValueError")
    ELSE Ok(409040000 + 2 * ((t \div 86400) % 1000))

\* server.py:94: math.radians(23.4392911), in 10^-9 radian.
FallbackObliquity == 409092804

\* server.py:86-94
get_true_obliquity_rad(t) ==
    IF true_obliquity_radians # None /\ TrueObliquity(t).ok
    THEN TrueObliquity(t).value
    ELSE FallbackObliquity

\* math.degrees(math.atan2(sin(theta), cos(theta) cos(eps) - tan(phi) sin(eps)))
\* of server.py:107-116: some float in [-180, 180] degrees, finite for every
\* float latitude (tan(radians(90.0)) is 1.6e16, not infinite).  The value is
\* a fixed function of its arguments; which one does not matter here.
AscRaw ==
    <<-6 * D30, -3 * D30 - 7, -1, 0, D30 - 1, D30, 45 * Deg + 500001,
      4 * D30 + 123456, 6 * D30 - 2, 6 * D30>>

AtanDegrees(last_deg, eps, lat_deg) ==
    AscRaw[(((last_deg \div Deg) + (eps % 7) + (Abs(lat_deg) \div Deg)) % Len(AscRaw)) + 1]

\* server.py:96-118
compute_ascendant_deg(t, lat_deg, lon_deg) ==
    LET gast == Gast(t)
        gast_deg == Float(gast.value * 15)
        last_deg == normalize_deg(Float(gast_deg + lon_deg))
        eps == get_true_obliquity_rad(t)
    IN  IF ~gast.ok THEN gast
        ELSE Ok(normalize_deg(AtanDegrees(last_deg, eps, lat_deg)))

(***************************************************************************)
(* Requests.  The JSON body is a dict; a key that is not sent is Absent.   *)
(***************************************************************************)
Absent == <<>>
Some(v) == <<v>>

\* dict.get(key, default)
Get(d, key, default) == IF d[key] # Absent THEN d[key] ELSE default

\* A JSON number with six decimals, as the float it parses to.
FromMicro(u) == Float(u * Micro)

Body(date, time, latitude, longitude, lat, lon, timezone) ==
    [date |-> date, time |-> time, latitude |-> latitude, longitude |-> longitude,
     lat |-> lat, lon |-> lon, timezone |-> timezone]

NoBody == Body(Absent, Absent, Absent, Absent, Absent, Absent, Absent)

GoodDates == {"2021-11-07", "2021-03-14", "2021-10-03", "2021-04-04", "2021-6-1",
              "2060-01-01"}
BadDates == {"2021-02-30", "21-11-07", "2021/11/07", ""}
GoodTimes == {"01:30", "02:30", "01:40", "02:10", "12:00:30", "13.54", " 7:05 "}
BadTimes == {"24:00", "noon", "12:00:61"}

Dates == {Some(d) : d \in GoodDates \cup BadDates} \cup {Absent}
Times == {Some(t) : t \in GoodTimes \cup BadTimes} \cup {Absent}

NewYork   == <<FromMicro(40712800), FromMicro(-74006000)>>
LordHowe  == <<FromMicro(-31550000), FromMicro(159080000)>>
Tokyo     == <<FromMicro(35676200), FromMicro(139650300)>>
NearPole  == <<FromMicro(-89999900), FromMicro(0)>>
MidOcean  == <<FromMicro(0), FromMicro(-30000000)>>

\* The coordinate keys of a body: the long names, the short names, or one missing.
Coordinates ==
    {[latitude |-> Some(p[1]), longitude |-> Some(p[2]), lat |-> Absent, lon |-> Absent] :
        p \in {NewYork, LordHowe, Tokyo, NearPole, MidOcean}}
    \cup {[latitude |-> Absent, longitude |-> Absent,
           lat |-> Some(NewYork[1]), lon |-> Some(NewYork[2])],
          [latitude |-> Absent, longitude |-> Some(Tokyo[2]), lat |-> Absent, lon |-> Absent]}

Timezones == {Absent, Some("Asia/Tokyo")}

Requests ==
    {Body(d, t, c.latitude, c.longitude, c.lat, c.lon, z) :
        d \in Dates, t \in Times, c \in Coordinates, z \in Timezones}

\* The requests of the concurrent workers.
ConcurrentRequests ==
    {Body(Some("2021-11-07"), Some("01:30"), Some(NewYork[1]), Some(NewYork[2]),
          Absent, Absent, Absent),
     Body(Some("2021-6-1"), Some("12:00:30"), Some(Tokyo[1]), Some(Tokyo[2]),
          Absent, Absent, Absent),
     Body(Some("2021-03-14"), Absent, Some(NewYork[1]), Some(NewYork[2]),
          Absent, Absent, Absent)}

(***************************************************************************)
(* Responses.                                                              *)
(***************************************************************************)
NoResponse == [status |-> 0]

\* server.py:144
Http400 ==
    [status |-> 400, error |-> TRUE, message |-> "Expected date, time, latitude, longitude"]

\* An exception that leaves calculate(): Flask answers 500.
Http500(exc) == [status |-> 500, exception |-> exc]

\* f with key k set to v (a dict store).
Ext(f, k, v) == [x \in (DOMAIN f) \cup {k} |-> IF x = k THEN v ELSE f[x]]

\* server.py:159-164 and 168-173: the entry of one longitude.
Position(lon_deg) ==
    LET sidx == sign_index_from_lon(lon_deg)
    IN  IF sidx < 0 \/ sidx >= Len(SIGNS) THEN Raise("IndexError")
        ELSE Ok([longitude |-> lon_deg,
                 sign |-> SIGNS[sidx + 1],
                 degreeInSign |-> PyRound6(deg_in_sign(lon_deg))])

\* server.py:176-178
WithHouses(planets, asc_sidx) ==
    [n \in DOMAIN planets |->
        Ext(planets[n], "house",
            House(sign_index_from_lon(planets[n].longitude), asc_sidx))]

\* datetime.isoformat(): the calendar fields and, when aware, the offset.
IsoLocal(dt_local) == [fields |-> dt_local.naive, utcoffset |-> OffsetOf(dt_local)]
IsoUtc(dt_utc) == [fields |-> dt_utc, utcoffset |-> 0]

\* server.py:180-188
Chart(asc, planets, tz_name, dt_local, dt_utc) ==
    [status |-> 200,
     ascendant |-> asc,
     planets |-> planets,
     timezone |-> [name |-> tz_name,
                   localDateTime |-> IsoLocal(dt_local),
                   utcDateTime |-> IsoUtc(dt_utc)]]

(***************************************************************************)
(* calculate(), server.py:133-188, run from start to end with nothing else *)
(* running: the response of one request.                                   *)
(***************************************************************************)
calculate(d) ==
    LET lat      == Get(d, "latitude", d.lat)
        lon      == Get(d, "longitude", d.lon)
        flat     == Float(lat[1])
        flon     == Float(lon[1])
        moment   == local_to_utc(d.date[1], d.time[1], flat, flon)
        t        == skyfield_time_from_utc(moment.value.dt_utc)
        lons     == [i \in 1..Len(PLANETS) |->
                        planet_ecliptic_longitude_deg(t, PLANETS[i].body)]
        bad      == {i \in 1..Len(PLANETS) : ~lons[i].ok}
        first    == CHOOSE i \in bad : \A j \in bad : i <= j
        names    == {PLANETS[i].name : i \in 1..Len(PLANETS)}
        lonOf(n) == lons[CHOOSE i \in 1..Len(PLANETS) : PLANETS[i].name = n].value
        planets  == [n \in names |-> Position(lonOf(n)).value]
        asc_deg  == compute_ascendant_deg(t, flat, flon)
        asc      == Position(asc_deg.value)
        asc_sidx == sign_index_from_lon(asc_deg.value)
    IN  IF d.date = Absent \/ d.time = Absent \/ lat = Absent \/ lon = Absent
        THEN Http400
        ELSE IF ~moment.ok THEN Http500(moment.exc)
        ELSE IF bad # {} THEN Http500(lons[first].exc)
        ELSE IF \E n \in names : ~Position(lonOf(n)).ok THEN Http500("IndexError")
        ELSE IF ~asc_deg.ok THEN Http500(asc_deg.exc)
        ELSE IF ~asc.ok THEN Http500(asc.exc)
        ELSE Chart(asc.value, WithHouses(planets, asc_sidx), moment.value.tz_name,
                   moment.value.dt_local, moment.value.dt_utc)

(***************************************************************************)
(* The handler, step by step, for worker r.                                *)
(***************************************************************************)
NoCalls == [tz |-> 0, ephemeris |-> 0]

\* An exception propagates out of calculate(): the locals are dropped.
Fail(r, exc) ==
    /\ response' = [response EXCEPT ![r] = Http500(exc)]
    /\ frame' = [frame EXCEPT ![r] = <<>>]
    /\ pc' = [pc EXCEPT ![r] = "done"]

Goto(r, label) == pc' = [pc EXCEPT ![r] = label]

\* A request arrives at an idle worker.
Receive(r, R) ==
    /\ pc[r] = "idle"
    /\ \E d \in R : data' = [data EXCEPT ![r] = d]
    /\ Goto(r, "validate")
    /\ calls' = [calls EXCEPT ![r] = NoCalls]
    /\ UNCHANGED <<globals, frame, response, arg, res>>

\* server.py:135-147
Validate(r) ==
    /\ pc[r] = "validate"
    /\ LET d   == data[r]
           lat == Get(d, "latitude", d.lat)
           lon == Get(d, "longitude", d.lon)
       IN  IF d.date = Absent \/ d.time = Absent \/ lat = Absent \/ lon = Absent
           THEN /\ response' = [response EXCEPT ![r] = Http400]
                /\ Goto(r, "done")
                /\ UNCHANGED frame
           ELSE /\ frame' = [frame EXCEPT ![r] =
                                [lat |-> Float(lat[1]), lon |-> Float(lon[1]),
                                 date_str |-> d.date[1], time_str |-> d.time[1]]]
                /\ Goto(r, "parse")
                /\ UNCHANGED response
    /\ UNCHANGED <<globals, data, calls, arg, res>>

\* server.py:69
ParseStep(r) ==
    /\ pc[r] = "parse"
    /\ LET parsed == parse_local_datetime(frame[r].date_str, frame[r].time_str)
       IN  IF ~parsed.ok THEN Fail(r, parsed.exc)
           ELSE /\ frame' = [frame EXCEPT ![r] = Ext(@, "dt_local_naive", parsed.value)]
                /\ Goto(r, "tz")
                /\ UNCHANGED response
    /\ UNCHANGED <<globals, data, calls, arg, res>>

\* server.py:70-71
TzStep(r) ==
    /\ pc[r] = "tz"
    /\ calls' = [calls EXCEPT ![r].tz = @ + 1]
    /\ LET zone == get_iana_tz(frame[r].lat, frame[r].lon)
       IN  IF ~zone.ok THEN Fail(r, zone.exc)
           ELSE /\ frame' = [frame EXCEPT ![r] = Ext(@, "tz_name", zone.value)]
                /\ Goto(r, "utc")
                /\ UNCHANGED response
    /\ UNCHANGED <<globals, data, arg, res>>

\* server.py:74-78, 153, 156
UtcStep(r) ==
    /\ pc[r] = "utc"
    /\ LET dt_local == Attach(frame[r].dt_local_naive, frame[r].tz_name)
           dt_utc   == AsUtc(dt_local)
       IN  frame' = [frame EXCEPT ![r] =
                        [lat |-> @.lat, lon |-> @.lon, tz_name |-> @.tz_name,
                         dt_local |-> dt_local, dt_utc |-> dt_utc,
                         t |-> skyfield_time_from_utc(dt_utc),
                         planets |-> <<>>, i |-> 1]]
    /\ Goto(r, "planets")
    /\ UNCHANGED <<globals, data, response, calls, arg, res>>

\* planets[name] = {...} into a dict that every worker shares.
StorePlanetShared(r, name, entry) ==
    [w \in Workers |->
        IF w = r \/ pc[w] \in {"planets", "asc", "houses", "respond"}
        THEN [frame[w] EXCEPT !.planets = Ext(@, name, entry),
                              !.i = IF w = r THEN @ + 1 ELSE @]
        ELSE frame[w]]

\* server.py:160-164: planets[name] = {...}, the dict being a local of the call.
StorePlanet(r, name, entry) ==
    [frame EXCEPT ![r].planets = Ext(@, name, entry), ![r].i = @ + 1]

\* One iteration of the loop, with the backend's error swallowed (continue).
PlanetStepSkip(r) ==
    /\ pc[r] = "planets"
    /\ calls' = [calls EXCEPT ![r].ephemeris = @ + 1]
    /\ LET p     == PLANETS[frame[r].i]
           lon   == planet_ecliptic_longitude_deg(frame[r].t, p.body)
           entry == Position(lon.value)
       IN  /\ frame' = IF lon.ok THEN StorePlanet(r, p.name, entry.value)
                       ELSE [frame EXCEPT ![r].i = @ + 1]
           /\ Goto(r, IF frame[r].i = Len(PLANETS) THEN "asc" ELSE "planets")
           /\ UNCHANGED response
    /\ UNCHANGED <<globals, data, arg, res>>

\* server.py:157-164: one iteration of the loop over PLANETS.items()
PlanetStep(r) ==
    /\ pc[r] = "planets"
    /\ calls' = [calls EXCEPT ![r].ephemeris = @ + 1]
    /\ LET p     == PLANETS[frame[r].i]
           lon   == planet_ecliptic_longitude_deg(frame[r].t, p.body)
           entry == Position(lon.value)
       IN  IF ~lon.ok THEN Fail(r, lon.exc)
           ELSE IF ~entry.ok THEN Fail(r, entry.exc)
           ELSE /\ frame' = StorePlanet(r, p.name, entry.value)
                /\ Goto(r, IF frame[r].i = Len(PLANETS) THEN "asc" ELSE "planets")
                /\ UNCHANGED response
    /\ UNCHANGED <<globals, data, arg, res>>

\* server.py:167-173
AscStep(r) ==
    /\ pc[r] = "asc"
    /\ calls' = [calls EXCEPT ![r].ephemeris =
                    @ + (IF Gast(frame[r].t).ok /\ true_obliquity_radians # None
                         THEN 2 ELSE 1)]
    /\ LET asc_deg == compute_ascendant_deg(frame[r].t, frame[r].lat, frame[r].lon)
           asc     == Position(asc_deg.value)
       IN  IF ~asc_deg.ok THEN Fail(r, asc_deg.exc)
           ELSE IF ~asc.ok THEN Fail(r, asc.exc)
           ELSE /\ frame' = [frame EXCEPT ![r] =
                                Ext(Ext(@, "asc", asc.value),
                                    "asc_sidx", sign_index_from_lon(asc_deg.value))]
                /\ Goto(r, "houses")
                /\ UNCHANGED response
    /\ UNCHANGED <<globals, data, arg, res>>

\* server.py:176-178
HouseStep(r) ==
    /\ pc[r] = "houses"
    /\ frame' = [frame EXCEPT ![r].planets = WithHouses(@, frame[r].asc_sidx)]
    /\ Goto(r, "respond")
    /\ UNCHANGED <<globals, data, response, calls, arg, res>>

\* server.py:180-188
Respond(r) ==
    /\ pc[r] = "respond"
    /\ response' = [response EXCEPT ![r] =
                       Chart(frame[r].asc, frame[r].planets, frame[r].tz_name,
                             frame[r].dt_local, frame[r].dt_utc)]
    /\ frame' = [frame EXCEPT ![r] = <<>>]
    /\ Goto(r, "done")
    /\ UNCHANGED <<globals, data, calls, arg, res>>

\* The response is sent; the worker takes the next request.
Return(r) ==
    /\ pc[r] = "done"
    /\ response' = [response EXCEPT ![r] = NoResponse]
    /\ data' = [data EXCEPT ![r] = NoBody]
    /\ calls' = [calls EXCEPT ![r] = NoCalls]
    /\ Goto(r, "idle")
    /\ UNCHANGED <<globals, frame, arg, res>>

(***************************************************************************)
(* The process after start-up, server.py:15-44.                            *)
(***************************************************************************)
Backends == {"ok", "obliquity", "gast", "mars"}

\* server.py:30-38, in the dict's insertion order.
PlanetTable ==
    <<[name |-> "Sun",     body |-> "sun"],
      [name |-> "Moon",    body |-> "moon"],
      [name |-> "Mercury", body |-> "mercury"],
      [name |-> "Venus",   body |-> "venus"],
      [name |-> "Mars",    body |-> "mars"],
      [name |-> "Jupiter", body |-> "jupiter barycenter"],
      [name |-> "Saturn",  body |-> "saturn barycenter"]>>

\* server.py:40-44
SignTable ==
    <<"Aries", "Taurus", "Gemini", "Cancer", "Leo", "Virgo", "Libra",
      "Scorpio", "Sagittarius", "Capricorn", "Aquarius", "Pisces">>

InitGlobals ==
    /\ PLANETS = PlanetTable
    /\ SIGNS = SignTable
    /\ true_obliquity_radians \in {"function", None}
    /\ backend \in Backends
    /\ true_obliquity_radians = None => backend = "ok"

InitWorkers ==
    /\ pc = [r \in Workers |-> "idle"]
    /\ data = [r \in Workers |-> NoBody]
    /\ frame = [r \in Workers |-> <<>>]
    /\ response = [r \in Workers |-> NoResponse]
    /\ calls = [r \in Workers |-> NoCalls]

Init ==
    /\ InitGlobals
    /\ InitWorkers
    /\ arg = 0
    /\ res = [f |-> "none"]

\* One worker, every request.
Next ==
    \/ Receive(1, Requests)
    \/ Validate(1)
    \/ ParseStep(1)
    \/ TzStep(1)
    \/ UtcStep(1)
    \/ PlanetStep(1)
    \/ AscStep(1)
    \/ HouseStep(1)
    \/ Respond(1)
    \/ Return(1)

Spec == Init /\ [][Next]_vars

\* Every worker, interleaved at the steps of the handler.
NextConcurrent ==
    \E r \in Workers :
        \/ Receive(r, ConcurrentRequests)
        \/ Validate(r)
        \/ ParseStep(r)
        \/ TzStep(r)
        \/ UtcStep(r)
        \/ PlanetStep(r)
        \/ AscStep(r)
        \/ HouseStep(r)
        \/ Respond(r)
        \/ Return(r)

\* The process with a healthy backend, or with one whose Mars query raises.
InitConcurrent ==
    /\ PLANETS = PlanetTable
    /\ SIGNS = SignTable
    /\ true_obliquity_radians = "function"
    /\ backend \in {"ok", "mars"}
    /\ InitWorkers
    /\ arg = 0
    /\ res = [f |-> "none"]

SpecConcurrent == InitConcurrent /\ [][NextConcurrent]_vars

(***************************************************************************)
(* The pure helpers applied to inputs drawn from bounded sets.             *)
(***************************************************************************)
\* Degrees around every multiple of 30 from -360 to 360, as floats.
AngleInputs ==
    {Float(k * D30 + e) : k \in -12..12, e \in {-8, -1, 0, 1, 8, Deg \div 2}}

SignIndexes == 0..11

InitPure ==
    /\ PLANETS = PlanetTable
    /\ SIGNS = SignTable
    /\ true_obliquity_radians = "function"
    /\ backend = "ok"
    /\ InitWorkers
    /\ arg = 0
    /\ res = [f |-> "none"]

ApplyNormalize ==
    /\ \E d \in AngleInputs :
          /\ arg' = d
          /\ res' = [f |-> "normalize_deg",
                     once |-> normalize_deg(d),
                     twice |-> normalize_deg(normalize_deg(d))]
    /\ UNCHANGED <<globals, pc, data, frame, response, calls>>

\* The loop of server.py:176-178 over one body in every sign.
ApplyHouse ==
    /\ \E a \in SignIndexes :
          /\ arg' = a
          /\ res' = [f |-> "house",
                     house |-> [s \in SignIndexes |-> House(s, a)]]
    /\ UNCHANGED <<globals, pc, data, frame, response, calls>>

NextPure == ApplyNormalize \/ ApplyHouse

SpecPure == InitPure /\ [][NextPure]_vars

(***************************************************************************)
(* Properties.                                                             *)
(***************************************************************************)
Done(r) == pc[r] = "done"

\* C1: for every Ascendant sign index a, the houses ((s - a) mod 12) + 1 of
\* the twelve sign indexes s are the twelve houses 1..12, each once, and the
\* Ascendant's own sign is house 1, also where s - a is negative.
C1_HouseBijection ==
    res.f = "house" =>
        /\ res.house[arg] = 1
        /\ {res.house[s] : s \in SignIndexes} = 1..12
        /\ \A s1, s2 \in SignIndexes : res.house[s1] = res.house[s2] => s1 = s2

\* An Ascendant in Pisces: every other sign index is below it.
C1_Witness == res.f = "house" /\ arg = 11 /\ res.house[0] = 2 /\ res.house[11] = 1

\* C9: normalize_deg(d) lies in [0, 360), and normalizing twice is
\* normalizing once.
C9_NormalizeRange ==
    res.f = "normalize_deg" =>
        /\ res.once >= 0
        /\ res.once < D360
        /\ res.twice = res.once

\* What a request asks for.
LatOf(d) == Get(d, "latitude", d.lat)
LonOf(d) == Get(d, "longitude", d.lon)

Complete(d) ==
    d.date # Absent /\ d.time # Absent /\ LatOf(d) # Absent /\ LonOf(d) # Absent

\* Complete, with a date or a time that is no date or no time of day.
Malformed(d) == Complete(d) /\ (d.date[1] \in BadDates \/ d.time[1] \in BadTimes)

WellFormed(d) == Complete(d) /\ d.date[1] \in GoodDates /\ d.time[1] \in GoodTimes

IsChart(resp) == resp.status = 200

ChartKeys == {"ascendant", "planets", "timezone"}

TrackedBodies == {"Sun", "Moon", "Mercury", "Venus", "Mars", "Jupiter", "Saturn"}

\* C2: a finished request has either an error response that carries no chart
\* data at all, or a chart with the Ascendant and all seven tracked bodies,
\* each body with a house number.
C2_AllOrNothing ==
    \A r \in Workers :
        Done(r) =>
            \/ /\ ~IsChart(response[r])
               /\ DOMAIN response[r] \cap ChartKeys = {}
            \/ /\ IsChart(response[r])
               /\ ChartKeys \subseteq DOMAIN response[r]
               /\ DOMAIN response[r].planets = TrackedBodies
               /\ \A n \in TrackedBodies :
                     /\ "house" \in DOMAIN response[r].planets[n]
                     /\ response[r].planets[n].house \in 1..12
               /\ "longitude" \in DOMAIN response[r].ascendant

\* The query for Mars raises after Sun, Moon, Mercury and Venus were stored.
C2_Witness ==
    /\ Done(1)
    /\ backend = "mars"
    /\ calls[1].ephemeris = 5
    /\ response[1] = Http500("EphemerisRangeError")

\* C3: a request that is incomplete or malformed ends in a client error
\* (status 400), and no timezone lookup or ephemeris query was made for it.
C3_ClientError ==
    \A r \in Workers :
        (Done(r) /\ (~Complete(data[r]) \/ Malformed(data[r]))) =>
            /\ response[r].status = 400
            /\ calls[r] = NoCalls

\* The distance from a pole below which the latitude is a domain error.
PolarEpsilon == Deg \div 1000

NearPoleLatitude(d) == Abs(Float(LatOf(d)[1])) >= 90 * Deg - PolarEpsilon

\* C4: a request whose latitude is within a small epsilon of a pole ends in
\* an error (the PolarLatitudeError domain error), never in a chart with an
\* Ascendant computed from that latitude.
C4_PolarLatitudeError ==
    \A r \in Workers :
        (Done(r) /\ Complete(data[r]) /\ NearPoleLatitude(data[r])) =>
            /\ ~IsChart(response[r])
            /\ "ascendant" \notin DOMAIN response[r]

\* C5: when the request names a timezone, the chart reports that timezone
\* and the coordinates-to-timezone resolver was not consulted.
C5_ExplicitTimezone ==
    \A r \in Workers :
        (Done(r) /\ data[r].timezone # Absent /\ IsChart(response[r])) =>
            /\ response[r].timezone.name = data[r].timezone[1]
            /\ calls[r].tz = 0

\* The offsets a zone ever has, and the offset in force at a UTC instant.
Offsets(z) == {z.before} \cup {z.trans[i].off : i \in 1..Len(z.trans)}

OffsetAtUtc(z, u) ==
    LET n == Cardinality({i \in 1..Len(z.trans) : z.trans[i].utc <= u})
    IN  IF n = 0 THEN z.before ELSE z.trans[n].off

\* The UTC instants whose wall-clock reading in zone z is the local time l.
ValidUtc(z, l) == {u \in {l - o : o \in Offsets(z)} : u + OffsetAtUtc(z, u) = l}

\* The transitions whose skipped wall-clock interval holds l.
GapsAt(z, l) ==
    {i \in 1..Len(z.trans) :
        z.trans[i].utc + OffsetBefore(z, i) <= l /\ l < z.trans[i].utc + z.trans[i].off}

Resolved(r) == pc[r] \in {"planets", "asc", "houses", "respond"}

\* C6: the UTC instant local_to_utc returns for an ambiguous local time is
\* the earlier of its two valid UTC instants, and for a nonexistent local
\* time it is the UTC instant of the local time moved forward by the gap.
C6_DstPolicy ==
    \A r \in Workers :
        Resolved(r) =>
            LET z     == ZoneInfo(frame[r].tz_name)
                l     == Timestamp(frame[r].dt_local.naive)
                u     == Timestamp(frame[r].dt_utc)
                valid == ValidUtc(z, l)
            IN  /\ Cardinality(valid) = 2 => (u \in valid /\ \A v \in valid : u <= v)
                /\ valid = {} =>
                      \E i \in GapsAt(z, l) :
                          u \in ValidUtc(z, l + (z.trans[i].off - OffsetBefore(z, i)))

\* 01:30 on the morning New York falls back: 05:30 UTC, not 06:30 UTC.
C6_Witness ==
    /\ Resolved(1)
    /\ frame[1].tz_name = "America/New_York"
    /\ Cardinality(ValidUtc(ZoneInfo("America/New_York"),
                            Timestamp(frame[1].dt_local.naive))) = 2
    /\ Timestamp(frame[1].dt_utc) = At(2021, 11, 7, 5, 30)

\* C7: a request for which a query of the ephemeris backend raised never
\* ends in a chart.
C7_NoSilentDefault ==
    \A r \in Workers :
        (Done(r) /\ calls[r].ephemeris > 0 /\ backend # "ok") =>
            ~IsChart(response[r])

\* The positions of a chart: the seven bodies and the Ascendant.
PositionsOf(resp) == {resp.planets[n] : n \in DOMAIN resp.planets}
                         \cup {Ext(resp.ascendant, "house", 1)}

\* C8: every position of a chart reports the sign SIGNS[floor(longitude/30)]
\* with an index in 0..11, and a degreeInSign in [0, 30).
C8_SignAndDegree ==
    \A r \in Workers :
        (Done(r) /\ IsChart(response[r])) =>
            \A p \in PositionsOf(response[r]) :
                /\ p.longitude \div D30 \in 0..11
                /\ p.sign = SignTable[(p.longitude \div D30) + 1]
                /\ p.degreeInSign >= 0
                /\ p.degreeInSign < D30

\* C10: the module globals keep the values given at start-up, and every
\* response is the response the same request gets when run alone.
C10_NoCrossRequestState ==
    /\ PLANETS = PlanetTable
    /\ SIGNS = SignTable
    /\ \A r \in Workers : Done(r) => response[r] = calculate(data[r])

\* A chart is finished while another worker is inside its planet loop for a
\* different request.
C10_Witness ==
    /\ Done(1)
    /\ IsChart(response[1])
    /\ pc[2] = "planets"
    /\ frame[2].i = 4
    /\ IsChart(calculate(data[2]))
    /\ data[2] # data[1]

====
